---- MODULE Spec2Model ----
(***************************************************************************)
(* A model of rapt: instruments (src/src/lib.rs), the derived instrument   *)
(* board (src/rapt_derive/src/lib.rs) and the MQTT publisher               *)
(* (src/src/mqtt.rs).                                                      *)
(*                                                                         *)
(* An Instrument is a handle: it shares `data` and `timestamp` (each an    *)
(* Arc<RwLock<..>>) with its clones and owns its own `name` and            *)
(* `listener`.  update() is modelled step by step, one action per lock     *)
(* operation, so that other threads and the publisher interleave with it.  *)
(***************************************************************************)
EXTENDS Integers, Sequences, FiniteSets, TLC

\* ------------------------------------------------------------ bounds
NumThreads == 2      \* writer threads
MaxUpdates == 2      \* update() calls per thread
NumClones == 1       \* clones taken besides the board's own fields
MaxClock == 1        \* largest reading of the clock (Utc::now)
MaxSetterCalls == 2  \* direct set_name / set_name_and_listener / wire_listener calls
MaxShutdowns == 1    \* Handle::shutdown calls
MaxRuns == 2         \* calls of Publisher::run
MaxHandles == 2      \* Handle values alive at a time
MaxHandleCalls == 2  \* Handle::shutdown calls where only the handles act
HashSpace == 3       \* number of distinct hash values
MaxFields == 2       \* fields of a struct that derives Instruments
MaxNameCalls == 2    \* calls of instrument_names

\* ------------------------------------------------------------ the board
\* The instrument names of the board, in field declaration order.
Names == <<"a", "b">>
NumInst == Len(Names)
Inst == 1..NumInst
BoardNames == {Names[k] : k \in Inst}
\* Names a caller may pass to set_name: the board's own and a foreign one.
NameSet == BoardNames \cup {"x"}
None == "None"
\* Two listeners (two channels); the publisher's Handle is the first.
Listeners == {"L1", "L2"}
PubListener == "L1"
Handles == 1..(NumInst + NumClones)
\* The threads of the counting test, and the two writers of the other
\* specifications.
Threads == 1..NumThreads
Writers == {1, 2}
Mutators == {"inc", "keep"}
Null == -1
NoHash == -1

\* ------------------------------------------------------------ derive(Instruments)
\* The identifiers a struct's fields may have and the strings a
\* #[rapt(name = "..")] attribute may give.
FieldIdents == <<"a", "b", "c", "d">>
Idents == {FieldIdents[k] : k \in 1..MaxFields}
Overrides == Idents \cup {"x"}

\* The structs: one to MaxFields fields in declaration order, each with its
\* identifier and the name of its attribute (None without one).  The
\* identifiers of a struct are distinct; nothing asks that of the names.
Declarations ==
    UNION {{d \in [1..n -> [ident : Idents, name : Overrides \cup {None}]] :
               \A j, k \in 1..n : j # k => d[j].ident # d[k].ident} :
           n \in 1..MaxFields}

\* The board of the other specifications: no attributes.
BoardFields == [k \in Inst |-> [ident |-> Names[k], name |-> None]]

\* The name a field is registered under: the attribute's when there is one,
\* the identifier otherwise.
RegisteredName(f) == IF f.name # None THEN f.name ELSE f.ident

\* instruments: one InstrumentField per field, in declaration order.
InstrumentFields(decl) ==
    [k \in DOMAIN decl |-> [name |-> RegisteredName(decl[k]), ident |-> decl[k].ident]]

\* vec![#(#names),*]: the names of the fields, in declaration order.
instrument_names(decl) == [k \in DOMAIN decl |-> InstrumentFields(decl)[k].name]

\* match key.as_ref() { #(#matches),*, _ => .. }: the first arm whose name is
\* the key, 0 for the last arm (Err(NotFound)).
MatchedArm(decl, key) ==
    LET arms == {k \in DOMAIN decl : InstrumentFields(decl)[k].name = key}
    IN IF arms = {} THEN 0 ELSE CHOOSE k \in arms : \A j \in arms : k <= j

\* No serialize_reading yet.
NoLookup == [key |-> None, arm |-> 0, ident |-> None]

VARIABLES
    \* shared state of an instrument (behind the Arcs)
    data, timestamp, dataPoisoned, tsPoisoned, dataLock, tsLock, version,
    \* per handle
    hinst, name, listener,
    \* the writer threads
    thr,
    \* the clock
    now,
    \* one mpsc channel per listener
    queue, rxAlive, enq,
    \* board wiring and direct setter calls
    wired, setterCalls,
    \* bookkeeping of completed update calls
    okInc, bad, okWired,
    \* the publisher
    pub, last_messages, published, handled, stops, prevBytes, lastDecision,
    shutdownCalls,
    \* how many Handle values (senders) are alive outside the publisher
    pubHandles,
    \* the struct that derives Instruments, the results of the calls of
    \* instrument_names and the arm the last serialize_reading took
    fields, nameCalls, found

instVars == <<data, timestamp, dataPoisoned, tsPoisoned, dataLock, tsLock, version>>
handleVars == <<hinst, name, listener>>
chanVars == <<queue, rxAlive, enq>>
countVars == <<okInc, bad, okWired>>
pubVars == <<pub, last_messages, published, handled, stops, prevBytes, lastDecision>>
ctlVars == <<shutdownCalls, pubHandles>>
deriveVars == <<fields, nameCalls, found>>
vars == <<instVars, handleVars, thr, now, chanVars, wired, setterCalls, countVars,
          pubVars, ctlVars, deriveVars>>

\* ------------------------------------------------------------ messages
UpdateMsg(n, id) == [kind |-> "Update", name |-> n, id |-> id]
ShutdownMsg(id) == [kind |-> "Shutdown", name |-> "", id |-> id]

\* Listener::instrument_updated: send Update(name) on the listener's channel.
\* The send fails (and the unwrap panics) when the receiver is gone.
\* Faulty variant: a send to a channel without receiver is taken for sent.
SendAlwaysOk(l) == TRUE

SendOk(l) == rxAlive[l]

\* Faulty variant: the message is lost.
SentNowhere(q, l, n, id) == q

Sent(q, l, n, id) == [q EXCEPT ![l] = Append(@, UpdateMsg(n, id))]

\* ------------------------------------------------------------ threads
\* What a completed call returned: op is "update" or "read", r is "Ok" or "Err".
Result(op, r) == [op |-> op, r |-> r]
NoResult == Result("none", "none")

\* pc is the thread's place in update; h, fn, tmp, applied and notified describe
\* the call in flight; res is what the thread's last completed call returned.
IdleThread == [pc |-> "idle", h |-> 0, fn |-> "inc", tmp |-> 0, res |-> NoResult,
               calls |-> 0, applied |-> 0, notified |-> 0]

\* The thread record once its call has unwound: the thread is gone.
Panicked(rec) == [rec EXCEPT !.pc = "panicked", !.h = 0, !.fn = "inc", !.tmp = 0,
                             !.applied = 0, !.notified = 0, !.res = NoResult]

\* The thread record once its call has returned r.
Returned(rec, r) == [rec EXCEPT !.pc = "idle", !.h = 0, !.fn = "inc", !.tmp = 0,
                                !.applied = 0, !.notified = 0, !.res = r]

\* The instrument a thread's current call works on.
InstOf(t) == hinst[thr[t].h]
InFlight(t) == thr[t].pc \in {"mutate", "stamp", "notify", "unlock"}
\* No call of a thread is borrowing handle h.
Unborrowed(h) == \A t \in DOMAIN thr : ~(InFlight(t) /\ thr[t].h = h)

\* Faulty variant: the mutator is not applied.
ApplyNothing(f, v) == v

\* The mutator handed to update.
Apply(f, v) == IF f = "inc" THEN v + 1 ELSE v

\* ------------------------------------------------------------ Init
\* The state after the board is built (Instrument::new for every field): no
\* names, no listeners, the clock read once per instrument.
InitInstruments ==
    /\ data = [i \in Inst |-> 0]
    /\ timestamp = [i \in Inst |-> 0]
    /\ dataPoisoned = [i \in Inst |-> FALSE]
    /\ tsPoisoned = [i \in Inst |-> FALSE]
    /\ dataLock = [i \in Inst |-> 0]
    /\ tsLock = [i \in Inst |-> 0]
    /\ version = [i \in Inst |-> 0]
    /\ now = 0
    /\ okInc = [i \in Inst |-> 0]
    /\ bad = [i \in Inst |-> FALSE]
    /\ okWired = [n \in NameSet |-> 0]

\* The publisher's variables before it has handled anything; st is "none" while
\* no publisher exists and "ready" once Publisher::new has returned; r is the
\* retain flag given to Publisher::new.
InitPublisherFlag(st, r) ==
    /\ pub = [state |-> st, ppc |-> "recv", cur |-> None, inst |-> 0,
              val |-> Null, atVer |-> 0, seen |-> 0, run |-> 0, msg |-> 0,
              retain |-> r, pubopt |-> "none"]
    /\ last_messages = [n \in NameSet |-> NoHash]
    /\ published = <<>>
    /\ handled = {}
    /\ stops = {}
    /\ prevBytes = [n \in NameSet |-> <<>>]
    /\ lastDecision = [made |-> FALSE]
    /\ shutdownCalls = 0
    /\ pubHandles = IF st = "none" THEN 0 ELSE 1

\* The example's publisher retains its messages.
InitPublisherState(st) == InitPublisherFlag(st, TRUE)

InitPublisherIdle == InitPublisherState("none")
InitPublisherNew == InitPublisherState("ready")

\* The handles of a board that has just been built: its own fields, not wired.
FreshName == [h \in Handles |-> None]
FreshListener == [h \in Handles |-> None]
FreshQueue == [l \in Listeners |-> <<>>]

\* The board is a value of the struct decl.
InitBoardOf(decl) ==
    /\ fields = decl
    /\ nameCalls = <<>>
    /\ found = NoLookup
    /\ hinst = [h \in Handles |-> IF h \in Inst THEN h ELSE 0]
    /\ rxAlive = [l \in Listeners |-> TRUE]
    /\ setterCalls = 0

InitBoard == InitBoardOf(BoardFields)

InitUnwired ==
    /\ InitBoard
    /\ name = FreshName
    /\ listener = FreshListener
    /\ queue = FreshQueue
    /\ enq = 0
    /\ wired = "no"

Init ==
    /\ InitInstruments
    /\ InitPublisherIdle
    /\ InitUnwired
    /\ thr = [t \in Writers |-> IdleThread]

\* ------------------------------------------------------------ Instrument
\* #[derive(Clone)]: the clone shares data and timestamp (the Arcs) and copies
\* name and listener as they are at that moment.  The next free slot is used.
Clone(src, dst) ==
    /\ hinst[src] # 0
    /\ hinst[dst] = 0
    /\ \A k \in Handles : k < dst => hinst[k] # 0
    /\ hinst' = [hinst EXCEPT ![dst] = hinst[src]]
    /\ name' = [name EXCEPT ![dst] = name[src]]
    /\ listener' = [listener EXCEPT ![dst] = listener[src]]
    /\ UNCHANGED <<instVars, thr, now, chanVars, wired, setterCalls, countVars,
                   pubVars, ctlVars, deriveVars>>

\* Time passes: the next Utc::now() reads a later instant.
Tick ==
    /\ now < MaxClock
    /\ now' = now + 1
    /\ UNCHANGED <<instVars, handleVars, thr, chanVars, wired, setterCalls,
                   countVars, pubVars, ctlVars, deriveVars>>

\* Faulty variant: a lock that excludes nobody.
WriteLockIgnored(i) == TRUE

\* RwLock::write blocks while another guard is held.
WriteLockFree(i) == dataLock[i] = 0

\* Faulty variant: the poison flag is not looked at.
WriteAlwaysOk(i) == "Ok"

\* self.data.write(): Err when the lock is poisoned.
WriteResult(i) == IF dataPoisoned[i] THEN "Err" ELSE "Ok"

\* Faulty variant: the poison flag is not looked at.
ReadIgnoresPoison(i) == "Ok"

\* self.data.read(): Err when the lock is poisoned.
ReadResult(i) == IF dataPoisoned[i] THEN "Err" ELSE "Ok"

\* update, first step: self.data.write().  A poisoned lock returns
\* Err(PoisonedData) at once; otherwise the thread holds the write guard and
\* the mutator starts from the value it finds.
UpdateCall(t, h, f) ==
    /\ thr[t].pc = "idle"
    /\ thr[t].calls < MaxUpdates
    /\ hinst[h] # 0
    /\ LET i == hinst[h]
           call == [thr[t] EXCEPT !.calls = @ + 1]
       IN /\ WriteLockFree(i)
          /\ IF WriteResult(i) = "Err"
             THEN /\ thr' = [thr EXCEPT ![t] = Returned(call, Result("update", "Err"))]
                  /\ bad' = [bad EXCEPT ![i] = TRUE]
                  /\ UNCHANGED dataLock
             ELSE /\ thr' = [thr EXCEPT ![t] = [call EXCEPT !.pc = "mutate", !.h = h,
                                                            !.fn = f, !.tmp = data[i]]]
                  /\ dataLock' = [dataLock EXCEPT ![i] = t]
                  /\ UNCHANGED bad
    /\ UNCHANGED <<data, timestamp, dataPoisoned, tsPoisoned, tsLock, version,
                   handleVars, now, chanVars, wired, setterCalls, okInc, okWired,
                   pubVars, ctlVars, deriveVars>>

\* f(&mut *data): the mutator returns.
Mutate(t) ==
    /\ thr[t].pc = "mutate"
    /\ LET i == InstOf(t)
       IN /\ data' = [data EXCEPT ![i] = Apply(thr[t].fn, thr[t].tmp)]
          /\ version' = [version EXCEPT ![i] = @ + 1]
    /\ thr' = [thr EXCEPT ![t].pc = "stamp", ![t].applied = @ + 1]
    /\ UNCHANGED <<timestamp, dataPoisoned, tsPoisoned, dataLock, tsLock,
                   handleVars, now, chanVars, wired, setterCalls, countVars,
                   pubVars, ctlVars, deriveVars>>

\* Faulty variant: a panic in the mutator poisons every instrument of the
\* board.
PoisonedEveryInstrument(i) == [j \in Inst |-> TRUE]

\* What unwinding out of the mutator does to the data lock: the write guard is
\* dropped while panicking, which poisons the lock.
PoisonedByMutatorPanic(i) == [dataPoisoned EXCEPT ![i] = TRUE]

\* f(&mut *data): the mutator panics, before or after it changed the value.
MutatePanic(t) ==
    /\ thr[t].pc = "mutate"
    /\ LET i == InstOf(t)
       IN /\ \E w \in {thr[t].tmp, Apply(thr[t].fn, thr[t].tmp)} :
                /\ data' = [data EXCEPT ![i] = w]
                /\ version' = [version EXCEPT ![i] = IF w = data[i] THEN @ ELSE @ + 1]
          /\ dataPoisoned' = PoisonedByMutatorPanic(i)
          /\ dataLock' = [dataLock EXCEPT ![i] = 0]
          /\ bad' = [bad EXCEPT ![i] = TRUE]
    /\ thr' = [thr EXCEPT ![t] = Panicked(thr[t])]
    /\ UNCHANGED <<timestamp, tsPoisoned, tsLock, handleVars, now, chanVars, wired,
                   setterCalls, okInc, okWired, pubVars, ctlVars, deriveVars>>

\* Faulty variant: both guards are dropped before the listener is called.
StampLocksReleased(t, i) == <<[dataLock EXCEPT ![i] = 0], tsLock>>

\* The guards a thread holds once self.timestamp.write() has succeeded: the
\* data guard is still in scope.
StampLocks(t, i) == <<dataLock, [tsLock EXCEPT ![i] = t]>>

\* Faulty variant: the timestamp lock is taken and the timestamp left alone.
StampKeepingTimestamp(t) ==
    /\ thr[t].pc = "stamp"
    /\ LET i == InstOf(t)
       IN /\ tsLock[i] = 0
          /\ IF tsPoisoned[i]
             THEN /\ thr' = [thr EXCEPT ![t] = Returned(thr[t], Result("update", "Err"))]
                  /\ dataLock' = [dataLock EXCEPT ![i] = 0]
                  /\ bad' = [bad EXCEPT ![i] = TRUE]
                  /\ UNCHANGED tsLock
             ELSE /\ thr' = [thr EXCEPT ![t].pc = "notify"]
                  /\ dataLock' = StampLocks(t, i)[1]
                  /\ tsLock' = StampLocks(t, i)[2]
                  /\ UNCHANGED bad
    /\ UNCHANGED <<data, timestamp, dataPoisoned, tsPoisoned, version, handleVars,
                   now, chanVars, wired, setterCalls, okInc, okWired, pubVars,
                   ctlVars, deriveVars>>

\* self.timestamp.write() and *timestamp = Utc::now().  A poisoned timestamp
\* lock returns Err(PoisonedData), which drops the data guard.
Stamp(t) ==
    /\ thr[t].pc = "stamp"
    /\ LET i == InstOf(t)
       IN /\ tsLock[i] = 0
          /\ IF tsPoisoned[i]
             THEN /\ thr' = [thr EXCEPT ![t] = Returned(thr[t], Result("update", "Err"))]
                  /\ dataLock' = [dataLock EXCEPT ![i] = 0]
                  /\ bad' = [bad EXCEPT ![i] = TRUE]
                  /\ UNCHANGED <<timestamp, tsLock>>
             ELSE /\ thr' = [thr EXCEPT ![t].pc = "notify"]
                  /\ timestamp' = [timestamp EXCEPT ![i] = now]
                  /\ dataLock' = StampLocks(t, i)[1]
                  /\ tsLock' = StampLocks(t, i)[2]
                  /\ UNCHANGED bad
    /\ UNCHANGED <<data, dataPoisoned, tsPoisoned, version, handleVars, now,
                   chanVars, wired, setterCalls, okInc, okWired, pubVars,
                   ctlVars, deriveVars>>

\* match (&self.listener, &self.name): the listener is called only when both
\* are set.
Wired(h) == listener[h] # None /\ name[h] # None

\* Faulty variant: update goes on without telling the listener.
NotifyDropped(t) ==
    /\ thr[t].pc = "notify"
    /\ thr' = [thr EXCEPT ![t].pc = "unlock"]
    /\ UNCHANGED <<instVars, handleVars, now, chanVars, wired, setterCalls,
                   countVars, pubVars, ctlVars, deriveVars>>

\* Faulty variant: a channel with room for one message per instrument, whose
\* send waits for the receiver when it is full.
ChannelBounded(q) == Len(q) < NumInst

\* Faulty variant: a channel that holds one message, whose send waits for the
\* receiver while it is taken.
ChannelOfOne(q) == Len(q) < 1

\* mpsc::channel() is unbounded: send never waits for the receiver.
ChannelHasRoom(q) == TRUE

\* l.instrument_updated(n), called with both guards held.  A failed send
\* panics (unwrap) and unwinding drops both guards, poisoning both locks.
Notify(t) ==
    /\ thr[t].pc = "notify"
    /\ LET h == thr[t].h
           i == InstOf(t)
       IN IF Wired(h)
          THEN IF SendOk(listener[h])
               THEN /\ ChannelHasRoom(queue[listener[h]])
                    /\ queue' = Sent(queue, listener[h], name[h], enq + 1)
                    /\ enq' = enq + 1
                    /\ thr' = [thr EXCEPT ![t].pc = "unlock", ![t].notified = @ + 1]
                    /\ UNCHANGED <<dataPoisoned, tsPoisoned, dataLock, tsLock, bad>>
               ELSE /\ dataPoisoned' = [dataPoisoned EXCEPT ![i] = TRUE]
                    /\ tsPoisoned' = [tsPoisoned EXCEPT ![i] = TRUE]
                    /\ dataLock' = [dataLock EXCEPT ![i] = 0]
                    /\ tsLock' = [tsLock EXCEPT ![i] = 0]
                    /\ bad' = [bad EXCEPT ![i] = TRUE]
                    /\ thr' = [thr EXCEPT ![t] = Panicked(thr[t])]
                    /\ UNCHANGED <<queue, enq>>
          ELSE /\ thr' = [thr EXCEPT ![t].pc = "unlock"]
               /\ UNCHANGED <<dataPoisoned, tsPoisoned, dataLock, tsLock, bad,
                              queue, enq>>
    /\ UNCHANGED <<data, timestamp, version, handleVars, now, rxAlive, wired,
                   setterCalls, okInc, okWired, pubVars, ctlVars, deriveVars>>

\* Faulty variant: update takes the listener out of the handle as it returns.
ReturnTakingListener(t) ==
    /\ thr[t].pc = "unlock"
    /\ LET h == thr[t].h
           i == InstOf(t)
       IN /\ dataLock' = [dataLock EXCEPT ![i] = 0]
          /\ tsLock' = [tsLock EXCEPT ![i] = 0]
          /\ listener' = [listener EXCEPT ![h] = None]
    /\ thr' = [thr EXCEPT ![t] = Returned(thr[t], Result("update", "Ok"))]
    /\ UNCHANGED <<data, timestamp, dataPoisoned, tsPoisoned, version, hinst, name,
                   now, chanVars, wired, setterCalls, countVars, pubVars,
                   ctlVars, deriveVars>>

\* Ok(()): both guards go out of scope and update returns.
Return(t) ==
    /\ thr[t].pc = "unlock"
    /\ LET h == thr[t].h
           i == InstOf(t)
       IN /\ dataLock' = [dataLock EXCEPT ![i] = 0]
          /\ tsLock' = [tsLock EXCEPT ![i] = 0]
          /\ okInc' = [okInc EXCEPT ![i] = IF thr[t].fn = "inc" THEN @ + 1 ELSE @]
          /\ okWired' = IF Wired(h)
                        THEN [okWired EXCEPT ![name[h]] = @ + 1]
                        ELSE okWired
    /\ thr' = [thr EXCEPT ![t] = Returned(thr[t], Result("update", "Ok"))]
    /\ UNCHANGED <<data, timestamp, dataPoisoned, tsPoisoned, version, handleVars,
                   now, chanVars, wired, setterCalls, bad, pubVars, ctlVars, deriveVars>>

\* read(): self.data.read(), which waits for a writer to finish.  The guard is
\* dropped by the caller after it has looked at the value.
Read(t, h) ==
    /\ thr[t].pc = "idle"
    /\ hinst[h] # 0
    /\ LET i == hinst[h]
       IN /\ dataLock[i] = 0
          /\ thr' = [thr EXCEPT ![t] = Returned(thr[t], Result("read", ReadResult(i)))]
    /\ UNCHANGED <<instVars, handleVars, now, chanVars, wired, setterCalls,
                   countVars, pubVars, ctlVars, deriveVars>>

\* ------------------------------------------------------------ wiring
\* The handle fields and the channels, as one value that the setters transform.
Wiring == [name |-> name, listener |-> listener, queue |-> queue, enq |-> enq,
           ok |-> TRUE]

\* Faulty variant: the listener is stored without the initial notification.
SetNameAndListenerSilent(w, h, n, l) ==
    IF ~w.ok THEN w ELSE [w EXCEPT !.name[h] = n, !.listener[h] = l]

\* Faulty variant: name and listener are shared by the clones of an instrument
\* like its value.
SetNameAndListenerShared(w, h, n, l) ==
    IF ~w.ok THEN w
    ELSE LET hs == {k \in Handles : hinst[k] # 0 /\ hinst[k] = hinst[h]}
             named == [w EXCEPT !.name = [k \in Handles |->
                                             IF k \in hs THEN n ELSE w.name[k]]]
         IN IF SendOk(l)
            THEN [named EXCEPT !.queue = Sent(@, l, n, w.enq + 1),
                               !.enq = @ + 1,
                               !.listener = [k \in Handles |->
                                                IF k \in hs THEN l ELSE w.listener[k]]]
            ELSE [named EXCEPT !.ok = FALSE]

\* set_name_and_listener on handle h of wiring w: the name is set, the listener
\* is notified once, and only then stored.  A failed send panics between the
\* two assignments; whatever follows in the caller does not run.
SetNameAndListenerOn(w, h, n, l) ==
    IF ~w.ok THEN w
    ELSE LET named == [w EXCEPT !.name[h] = n]
         IN IF SendOk(l)
            THEN [named EXCEPT !.queue = Sent(@, l, n, w.enq + 1),
                               !.enq = @ + 1,
                               !.listener[h] = l]
            ELSE [named EXCEPT !.ok = FALSE]

\* Faulty variant: no field is wired.
WireFromNowhere(w, k, l) == w

\* The derived wire_listener: set_name_and_listener(field name, listener.clone())
\* for every field from the k-th on, in declaration order.
RECURSIVE WireFrom(_, _, _)
WireFrom(w, k, l) ==
    IF k > NumInst THEN w
    ELSE WireFrom(SetNameAndListenerOn(w, k, Names[k], l), k + 1, l)

\* wire_listener(&mut self, listener): needs the board unborrowed.
WireBoard(l) ==
    /\ \A i \in Inst : Unborrowed(i)
    /\ LET w == WireFrom(Wiring, 1, l)
       IN /\ name' = w.name
          /\ listener' = w.listener
          /\ queue' = w.queue
          /\ enq' = w.enq
          /\ wired' = IF w.ok THEN "done" ELSE "panicked"
    /\ UNCHANGED <<instVars, hinst, thr, now, rxAlive, countVars, pubVars,
                   ctlVars, deriveVars>>

\* The state after wire_listener(listener) on a board that has just been built.
InitWired ==
    /\ InitBoard
    /\ LET w == WireFrom([name |-> FreshName, listener |-> FreshListener,
                          queue |-> FreshQueue, enq |-> 0, ok |-> TRUE],
                         1, PubListener)
       IN /\ name = w.name
          /\ listener = w.listener
          /\ queue = w.queue
          /\ enq = w.enq
          /\ wired = "done"

\* The board is wired once, as its contract asks.
WireListener(l) ==
    /\ wired = "no"
    /\ WireBoard(l)
    /\ UNCHANGED setterCalls

\* set_name(&mut self, name): the name is overwritten, whatever it was.
SetName(h, n) ==
    /\ hinst[h] # 0
    /\ Unborrowed(h)
    /\ setterCalls < MaxSetterCalls
    /\ name' = [name EXCEPT ![h] = n]
    /\ setterCalls' = setterCalls + 1
    /\ UNCHANGED <<instVars, hinst, listener, thr, now, chanVars, wired, countVars,
                   pubVars, ctlVars, deriveVars>>

\* set_name_and_listener(&mut self, name, listener), called directly on a handle.
SetNameAndListener(h, n, l) ==
    /\ hinst[h] # 0
    /\ Unborrowed(h)
    /\ setterCalls < MaxSetterCalls
    /\ LET w == SetNameAndListenerOn(Wiring, h, n, l)
       IN /\ name' = w.name
          /\ listener' = w.listener
          /\ queue' = w.queue
          /\ enq' = w.enq
    /\ setterCalls' = setterCalls + 1
    /\ UNCHANGED <<instVars, hinst, thr, now, rxAlive, wired, countVars, pubVars,
                   ctlVars, deriveVars>>

\* wire_listener called whenever the caller likes: nothing in the code stops a
\* second call.
WireListenerAnyTime(l) ==
    /\ setterCalls < MaxSetterCalls
    /\ WireBoard(l)
    /\ setterCalls' = setterCalls + 1

\* The receiving end of a listener's channel is dropped.
DropReceiver(l) ==
    /\ rxAlive[l]
    /\ rxAlive' = [rxAlive EXCEPT ![l] = FALSE]
    /\ UNCHANGED <<instVars, handleVars, thr, now, queue, enq, wired, setterCalls,
                   countVars, pubVars, ctlVars, deriveVars>>

\* ------------------------------------------------------------ Serialize
\* Faulty variant: the value is written whatever the state of its lock.
ValueFieldIgnoringPoison(i) == data[i]

\* match self.data.read(): serialize_field("value", ..) is given the value, or
\* None (null) when the data lock is poisoned.
ValueField(i) == IF dataPoisoned[i] THEN Null ELSE data[i]

\* ------------------------------------------------------------ Publisher
\* What serialization writes for an instrument: the value (null when the data
\* lock is poisoned) and the timestamp.
Bytes(v, ts) == <<v, ts>>

\* DefaultHasher over the bytes: a hash of fixed width, so that different
\* bytes may have the same hash.
Hash(b) == ((b[1] + 1) * (MaxClock + 1) + b[2]) % HashSpace

\* The derived serialize_reading: the field a name stands for, 0 when there is
\* none (Err(NotFound)).
IndexOf(n) == IF \E k \in Inst : Names[k] = n
              THEN CHOOSE k \in Inst : Names[k] = n
              ELSE 0

\* Faulty variant: a Shutdown is sent only when none is waiting in the channel.
ShutdownSentOnce(ok, q, id) ==
    IF ok /\ \A k \in 1..Len(q[PubListener]) : q[PubListener][k].kind # "Shutdown"
    THEN [q EXCEPT ![PubListener] = Append(@, ShutdownMsg(id))]
    ELSE q

\* self.sender.send(Message::Shutdown): the message is queued when the receiver
\* exists; otherwise send returns Err and nothing is queued.
ShutdownSent(ok, q, id) ==
    IF ok THEN [q EXCEPT ![PubListener] = Append(@, ShutdownMsg(id))] ELSE q

\* Handle::shutdown through one of the Handle values, at most k calls in all:
\* Shutdown is sent on the publisher's channel.  When the receiver is gone the
\* unwrap panics in the caller: the call is counted and nothing is sent.
ShutdownUpTo(k) ==
    /\ pub.state # "none"
    /\ pubHandles > 0
    /\ shutdownCalls < k
    /\ shutdownCalls' = shutdownCalls + 1
    /\ queue' = ShutdownSent(SendOk(PubListener), queue, enq + 1)
    /\ enq' = IF queue' # queue THEN enq + 1 ELSE enq
    /\ UNCHANGED <<instVars, handleVars, thr, now, rxAlive, wired, setterCalls,
                   countVars, pubVars, pubHandles, deriveVars>>

Shutdown == ShutdownUpTo(MaxShutdowns)

\* publisher.handle() and Handle::clone: one more sender outside the publisher.
NewHandle ==
    /\ pub.state \in {"ready", "terminated"} \/ pubHandles > 0
    /\ pubHandles < MaxHandles
    /\ pubHandles' = pubHandles + 1
    /\ UNCHANGED <<instVars, handleVars, thr, now, chanVars, wired, setterCalls,
                   countVars, pubVars, shutdownCalls, deriveVars>>

\* A Handle value goes out of scope.
DropHandle ==
    /\ pubHandles > 0
    /\ pubHandles' = pubHandles - 1
    /\ UNCHANGED <<instVars, handleVars, thr, now, chanVars, wired, setterCalls,
                   countVars, pubVars, shutdownCalls, deriveVars>>

\* The publisher goes out of scope, or into_inner(self) consumes it: the
\* receiver goes with it.  It cannot happen while run borrows the publisher.
DropPublisher ==
    /\ pub.state \in {"ready", "terminated"}
    /\ pub' = [pub EXCEPT !.state = "dropped"]
    /\ rxAlive' = [rxAlive EXCEPT ![PubListener] = FALSE]
    /\ UNCHANGED <<instVars, handleVars, thr, now, queue, enq, wired, setterCalls,
                   countVars, last_messages, published, handled, stops, prevBytes,
                   lastDecision, ctlVars, deriveVars>>

\* Faulty variant: the map of an earlier call of run is kept.
KeptLastMessages == last_messages

\* let mut last_messages = HashMap::new().
FreshLastMessages == [n \in NameSet |-> NoHash]

\* Faulty variant: the messages are never retained.
PubOptNeverRetain(r) == "at_least_once"

\* let pubopt = if self.retain { PubOpt::retain() } else { PubOpt::at_least_once() }.
PubOpt(r) == IF r THEN "retain" ELSE "at_least_once"

\* impl TopicFormatter for (): the topic is the instrument's name.
FormatTopic(n) == n

\* run(&mut self, ..): last_messages starts empty in every call, and the
\* publish options are fixed for the call.
Run ==
    /\ pub.state \in {"ready", "terminated"}
    /\ pub.run < MaxRuns
    /\ pub' = [pub EXCEPT !.state = "running", !.ppc = "recv", !.run = @ + 1,
                          !.pubopt = PubOpt(pub.retain)]
    /\ last_messages' = FreshLastMessages
    /\ UNCHANGED <<instVars, handleVars, thr, now, chanVars, wired, setterCalls,
                   countVars, published, handled, stops, prevBytes, lastDecision,
                   ctlVars, deriveVars>>

\* Faulty variant: Shutdown does not leave the loop.
AfterShutdownIgnored == "running"

\* Ok(Message::Shutdown) => break: run returns.
AfterShutdown == "terminated"

\* Faulty variant: a failure in run is swallowed and the loop goes on.
PubPanicSwallowed ==
    /\ pub' = [pub EXCEPT !.ppc = "recv"]
    /\ UNCHANGED rxAlive

\* An unwrap in run panics.  The receiver goes with the publisher when the
\* publisher was moved into the panicking thread, and stays when it was lent.
PubPanic ==
    /\ pub' = [pub EXCEPT !.state = "panicked"]
    /\ \E kept \in BOOLEAN : rxAlive' = [rxAlive EXCEPT ![PubListener] = kept]

\* The senders of the publisher's channel: the Handle values outside the
\* publisher, the listeners of the instruments wired to it (those of the
\* publisher's own board among them), and the publisher's own `sender` field.
PublisherKeepsSender == TRUE
OutsideSenders ==
    pubHandles + Cardinality({h \in Handles \ Inst :
                                 hinst[h] # 0 /\ listener[h] = PubListener})
\* Faulty variant: the senders inside the publisher are not counted.
DisconnectedWithoutHandles == OutsideSenders = 0

Disconnected ==
    /\ OutsideSenders = 0
    /\ \A h \in Inst : listener[h] # PubListener
    /\ ~PublisherKeepsSender

\* self.receiver.recv(): the oldest message is taken; recv waits while the
\* channel is empty and a sender exists, and returns Err (Err(err) =>
\* panic!(err)) once it is empty and every sender is gone.
PubRecv ==
    /\ pub.state = "running"
    /\ pub.ppc = "recv"
    /\ queue[PubListener] # <<>> \/ Disconnected
    /\ IF queue[PubListener] = <<>>
       THEN /\ PubPanic
            /\ UNCHANGED <<queue, stops>>
       ELSE LET m == Head(queue[PubListener])
            IN /\ queue' = [queue EXCEPT ![PubListener] = Tail(@)]
               /\ UNCHANGED rxAlive
               /\ IF m.kind = "Shutdown"
                  THEN /\ pub' = [pub EXCEPT !.state = AfterShutdown]
                       /\ stops' = stops \cup {[id |-> m.id, run |-> pub.run]}
                  ELSE /\ pub' = [pub EXCEPT !.ppc = "value", !.cur = m.name,
                                             !.msg = m.id, !.inst = IndexOf(m.name)]
                       /\ UNCHANGED stops
    /\ UNCHANGED <<instVars, handleVars, thr, now, enq, wired, setterCalls,
                   countVars, last_messages, published, handled, prevBytes,
                   lastDecision, ctlVars, deriveVars>>

\* serialize_reading(name, ..), first field: self.data.read() waits for a
\* writer; a poisoned lock serializes as null.  An unknown name is
\* Err(NotFound) and the unwrap panics.
PubSerializeValue ==
    /\ pub.state = "running"
    /\ pub.ppc = "value"
    /\ IF pub.inst = 0
       THEN PubPanic
       ELSE /\ dataLock[pub.inst] = 0
            /\ pub' = [pub EXCEPT !.ppc = "ts",
                                  !.val = ValueField(pub.inst),
                                  !.atVer = version[pub.inst],
                                  !.seen = timestamp[pub.inst]]
            /\ UNCHANGED rxAlive
    /\ UNCHANGED <<instVars, handleVars, thr, now, queue, enq, wired, setterCalls,
                   countVars, last_messages, published, handled, stops, prevBytes,
                   lastDecision, ctlVars, deriveVars>>

\* Faulty variant: every message is sent.
PublishAlways(stored, h) == TRUE

\* Faulty variant: only the first message of a name is sent.
PublishOnlyWhenVacant(stored, h) == stored = NoHash

\* match last_messages.entry(name): send when the entry is vacant or holds
\* another hash.
ShouldPublish(stored, h) == stored = NoHash \/ stored # h

\* Faulty variant: an occupied entry keeps its hash.
InsertedOnlyWhenVacant(stored, h) == IF stored = NoHash THEN h ELSE stored

\* entry.insert(hash), in both sending branches.
Inserted(stored, h) == h

\* serialize_reading, second field (the timestamp lock is read; a poisoned one
\* is a serialization error and the unwrap panics), then the hash, the entry of
\* last_messages and client.publish(..).unwrap(), which panics when the sink
\* fails (ok is what the sink returns).
PubFinish ==
    /\ pub.state = "running"
    /\ pub.ppc = "ts"
    /\ LET i == pub.inst
           n == pub.cur
       IN /\ tsLock[i] = 0
          /\ IF tsPoisoned[i]
             THEN /\ PubPanic
                  /\ UNCHANGED <<last_messages, published, handled, prevBytes,
                                 lastDecision>>
             ELSE LET b == Bytes(pub.val, timestamp[i])
                      h == Hash(b)
                      should == ShouldPublish(last_messages[n], h)
                  IN \E ok \in (IF should THEN BOOLEAN ELSE {TRUE}) :
                     /\ last_messages' =
                            IF should
                            THEN [last_messages EXCEPT ![n] = Inserted(@, h)]
                            ELSE last_messages
                     /\ published' =
                            IF should
                            THEN Append(published, [name |-> n, payload |-> b,
                                                    run |-> pub.run, id |-> pub.msg,
                                                    topic |-> FormatTopic(n),
                                                    opt |-> pub.pubopt])
                            ELSE published
                     /\ handled' = handled \cup
                            {[id |-> pub.msg, run |-> pub.run, name |-> n,
                              atVer |-> pub.atVer, tsVer |-> version[i],
                              val |-> pub.val, pub |-> should]}
                     /\ prevBytes' = [prevBytes EXCEPT ![n] =
                                         <<[bytes |-> b, run |-> pub.run]>>]
                     /\ lastDecision' = [made |-> TRUE, name |-> n, bytes |-> b,
                                         prev |-> prevBytes[n], run |-> pub.run,
                                         pub |-> should, seen |-> pub.seen,
                                         failed |-> ~ok]
                     /\ IF ok
                        THEN /\ pub' = [pub EXCEPT !.ppc = "recv"]
                             /\ UNCHANGED rxAlive
                        ELSE PubPanic
    /\ UNCHANGED <<instVars, handleVars, thr, now, queue, enq, wired, setterCalls,
                   countVars, stops, ctlVars, deriveVars>>

\* ------------------------------------------------------------ serialize_reading
\* What a call of serialize_reading(key, serializer) by a thread has done so
\* far: r is "pending" between the two fields and then what the call returned,
\* out is what the serializer has been given, ver and end are the instrument's
\* version when the value and when the timestamp was read, at is the time of the
\* call and tsp whether the timestamp lock was found poisoned.
ReadingResult(key, r, out, ver, end, at, tsp) ==
    [op |-> "serialize", key |-> key, r |-> r, out |-> out, ver |-> ver,
     end |-> end, at |-> at, tsp |-> tsp]

\* Faulty variant: the field is the time of the serialization.
TimestampFieldNow(i) == now

\* serialize_field("last_update_at", &&*self.timestamp): the stored timestamp.
TimestampField(i) == timestamp[i]

\* Faulty variant: a poisoned lock is serialized like any other.
SerializeLockIgnoresPoison(poisoned) == "Ok"

\* serde's Serialize for RwLock: an error when the lock is poisoned.
SerializeLock(poisoned) == IF poisoned THEN "SerializationError" ELSE "Ok"

\* match key.as_ref(): a key that is no field name is Err(NotFound) and the
\* serializer is not touched.  Otherwise the field's serialize starts:
\* self.data.read() waits for a writer, the value (null when the data lock is
\* poisoned) is written and the read guard is dropped.
ReadingValue(t, key) ==
    /\ thr[t].pc = "idle"
    /\ thr[t].calls < MaxUpdates
    /\ LET call == [thr[t] EXCEPT !.calls = @ + 1]
           i == IndexOf(key)
       IN IF i = 0
          THEN thr' = [thr EXCEPT ![t] = Returned(call,
                          ReadingResult(key, "NotFound", <<>>, 0, 0, now, FALSE))]
          ELSE /\ dataLock[i] = 0
               /\ thr' = [thr EXCEPT ![t] =
                      [call EXCEPT !.pc = "reading", !.h = i,
                                   !.res = ReadingResult(key, "pending",
                                       <<ValueField(i)>>,
                                       version[i], version[i], now, FALSE)]]
    /\ UNCHANGED <<instVars, handleVars, now, chanVars, wired, setterCalls,
                   countVars, pubVars, ctlVars, deriveVars>>

\* The second field and ss.end(): the timestamp lock is read; when it is
\* poisoned the call returns Err(SerializationError(..)) with the value field
\* already written.
ReadingTimestamp(t) ==
    /\ thr[t].pc = "reading"
    /\ LET i == thr[t].h
           part == thr[t].res
           r == SerializeLock(tsPoisoned[i])
       IN /\ tsLock[i] = 0
          /\ thr' = [thr EXCEPT ![t] = Returned(thr[t],
                        ReadingResult(part.key, r,
                            IF r = "Ok" THEN Append(part.out, TimestampField(i))
                            ELSE part.out,
                            part.ver, version[i], part.at, tsPoisoned[i]))]
    /\ UNCHANGED <<instVars, handleVars, now, chanVars, wired, setterCalls,
                   countVars, pubVars, ctlVars, deriveVars>>

\* ------------------------------------------------------------ derived methods
\* instrument_names(): the vector built from the names.
InstrumentNames ==
    /\ Len(nameCalls) < MaxNameCalls
    /\ nameCalls' = Append(nameCalls, instrument_names(fields))
    /\ UNCHANGED <<instVars, handleVars, thr, now, chanVars, wired, setterCalls,
                   countVars, pubVars, ctlVars, fields, found>>

\* serialize_reading(key, ..): the arm the match takes and the field that arm
\* serializes.
SerializeReadingArm(key) ==
    /\ LET arm == MatchedArm(fields, key)
       IN found' = [key |-> key, arm |-> arm,
                    ident |-> IF arm = 0 THEN None ELSE fields[arm].ident]
    /\ UNCHANGED <<instVars, handleVars, thr, now, chanVars, wired, setterCalls,
                   countVars, pubVars, ctlVars, fields, nameCalls>>

\* ------------------------------------------------------------ Spec
\* The handles that share instrument i.
HandlesOf(i) == {h \in Handles : hinst[h] = i}

\* A board, its clones and the writer threads: the board is wired at most once
\* and notifications pile up in the listener's channel.
Next ==
    \/ \E src, dst \in Handles : Clone(src, dst)
    \/ WireListener(PubListener)
    \/ DropReceiver(PubListener)
    \/ \E t \in DOMAIN thr, h \in Handles : UpdateCall(t, h, "inc")
    \/ \E t \in DOMAIN thr : Mutate(t)
    \/ \E t \in DOMAIN thr : Stamp(t)
    \/ \E t \in DOMAIN thr : Notify(t)
    \/ \E t \in DOMAIN thr : Return(t)

Spec == Init /\ [][Next]_vars

\* ------------------------------------------------------------ SpecPublisher
\* examples/mqtt.rs: a publisher made from a fresh board, run (and run again
\* after it returned) next to one thread that updates the first instrument
\* through the board or a clone, while time passes.
InitPublisher ==
    /\ InitInstruments
    /\ InitPublisherNew
    /\ InitWired
    /\ thr = [t \in {1} |-> IdleThread]

NextPublisher ==
    \/ \E src \in HandlesOf(1), dst \in Handles : Clone(src, dst)
    \/ Tick
    \/ Run
    \/ Shutdown
    \/ PubRecv
    \/ PubSerializeValue
    \/ PubFinish
    \/ \E t \in DOMAIN thr, h \in HandlesOf(1) : UpdateCall(t, h, "inc")
    \/ \E t \in DOMAIN thr : Mutate(t)
    \/ \E t \in DOMAIN thr : Stamp(t)
    \/ \E t \in DOMAIN thr : Notify(t)
    \/ \E t \in DOMAIN thr : Return(t)

SpecPublisher == InitPublisher /\ [][NextPublisher]_vars

\* ------------------------------------------------------------ SpecHandle
\* The publisher and its handles alone: handles are taken, cloned, dropped and
\* used to shut down; the publisher is run, run again, and dropped.
InitHandle ==
    /\ InitInstruments
    /\ InitPublisherNew
    /\ InitWired
    /\ thr = [t \in {1} |-> IdleThread]

NextHandle ==
    \/ NewHandle
    \/ DropHandle
    \/ ShutdownUpTo(MaxHandleCalls)
    \/ Run
    \/ DropPublisher
    \/ PubRecv
    \/ PubSerializeValue
    \/ PubFinish

SpecHandle == InitHandle /\ [][NextHandle]_vars

\* ------------------------------------------------------------ SpecSink
\* A publisher built with either retain flag, with a sink that may fail, next
\* to a caller that clones the first instrument and wires the clone to the
\* publisher's handle under any name, one of the board's or not.
InitSink ==
    /\ InitInstruments
    /\ \E r \in BOOLEAN : InitPublisherFlag("ready", r)
    /\ InitWired
    /\ thr = [t \in {1} |-> IdleThread]

NextSink ==
    \/ \E src \in HandlesOf(1), dst \in Handles : Clone(src, dst)
    \/ \E h \in Handles \ Inst, n \in NameSet : SetNameAndListener(h, n, PubListener)
    \/ Run
    \/ Shutdown
    \/ PubRecv
    \/ PubSerializeValue
    \/ PubFinish

SpecSink == InitSink /\ [][NextSink]_vars

\* ------------------------------------------------------------ SpecTopic
\* A publisher built with either retain flag, run while one thread updates the
\* instruments of its board.
NextTopic ==
    \/ Run
    \/ Shutdown
    \/ PubRecv
    \/ PubSerializeValue
    \/ PubFinish
    \/ \E t \in DOMAIN thr, h \in Inst : UpdateCall(t, h, "inc")
    \/ \E t \in DOMAIN thr : Mutate(t)
    \/ \E t \in DOMAIN thr : Stamp(t)
    \/ \E t \in DOMAIN thr : Notify(t)
    \/ \E t \in DOMAIN thr : Return(t)

SpecTopic == InitSink /\ [][NextTopic]_vars

\* ------------------------------------------------------------ SpecReading
\* Threads that update the first instrument of a wired board and serialize
\* readings of any key, while time passes and the listener's receiver may go.
InitReading ==
    /\ InitInstruments
    /\ InitPublisherIdle
    /\ InitWired
    /\ thr = [t \in Writers |-> IdleThread]

NextReading ==
    \/ Tick
    \/ DropReceiver(PubListener)
    \/ \E t \in DOMAIN thr : UpdateCall(t, 1, "inc")
    \/ \E t \in DOMAIN thr : Mutate(t)
    \/ \E t \in DOMAIN thr : Stamp(t)
    \/ \E t \in DOMAIN thr : Notify(t)
    \/ \E t \in DOMAIN thr : Return(t)
    \/ \E t \in DOMAIN thr, key \in NameSet : ReadingValue(t, key)
    \/ \E t \in DOMAIN thr : ReadingTimestamp(t)

SpecReading == InitReading /\ [][NextReading]_vars

\* ------------------------------------------------------------ SpecStamp
\* Threads that update the first instrument of a wired board with a mutator
\* that changes the value or with one that leaves it, while time passes and the
\* listener's receiver may go.
NextStamp ==
    \/ Tick
    \/ DropReceiver(PubListener)
    \/ \E t \in DOMAIN thr, f \in Mutators : UpdateCall(t, 1, f)
    \/ \E t \in DOMAIN thr : Mutate(t)
    \/ \E t \in DOMAIN thr : Stamp(t)
    \/ \E t \in DOMAIN thr : Notify(t)
    \/ \E t \in DOMAIN thr : Return(t)

SpecStamp == InitReading /\ [][NextStamp]_vars

\* ------------------------------------------------------------ SpecDerive
\* Any struct that derives Instruments, and the calls of its derived methods.
InitDerive ==
    /\ InitInstruments
    /\ InitPublisherIdle
    /\ \E decl \in Declarations : InitBoardOf(decl)
    /\ name = FreshName
    /\ listener = FreshListener
    /\ queue = FreshQueue
    /\ enq = 0
    /\ wired = "no"
    /\ thr = [t \in {1} |-> IdleThread]

NextDerive ==
    \/ InstrumentNames
    \/ \E key \in Overrides : SerializeReadingArm(key)

SpecDerive == InitDerive /\ [][NextDerive]_vars

\* ------------------------------------------------------------ SpecOrder
\* Two threads update the first instrument of the publisher's board while the
\* publisher runs.
InitOrder ==
    /\ InitInstruments
    /\ InitPublisherNew
    /\ InitWired
    /\ thr = [t \in Writers |-> IdleThread]

NextOrder ==
    \/ Run
    \/ PubRecv
    \/ PubSerializeValue
    \/ PubFinish
    \/ \E t \in DOMAIN thr : UpdateCall(t, 1, "inc")
    \/ \E t \in DOMAIN thr : Mutate(t)
    \/ \E t \in DOMAIN thr : Stamp(t)
    \/ \E t \in DOMAIN thr : Notify(t)
    \/ \E t \in DOMAIN thr : Return(t)

SpecOrder == InitOrder /\ [][NextOrder]_vars

\* ------------------------------------------------------------ SpecLive
\* One thread updates the first instrument while the publisher runs and time
\* passes; nobody sends a Shutdown.
NextLive ==
    \/ Tick
    \/ Run
    \/ PubRecv
    \/ PubSerializeValue
    \/ PubFinish
    \/ \E t \in DOMAIN thr : UpdateCall(t, 1, "inc")
    \/ \E t \in DOMAIN thr : Mutate(t)
    \/ \E t \in DOMAIN thr : Stamp(t)
    \/ \E t \in DOMAIN thr : Notify(t)
    \/ \E t \in DOMAIN thr : Return(t)

\* The publisher's thread is scheduled: run is called and each step of the
\* loop is taken when it can be.  A thread inside update is scheduled too: the
\* mutator returns and the guards are dropped.
FairLive ==
    /\ WF_vars(Run)
    /\ WF_vars(PubRecv)
    /\ WF_vars(PubSerializeValue)
    /\ WF_vars(PubFinish)
    /\ \A t \in {1} : /\ WF_vars(Mutate(t))
                      /\ WF_vars(Stamp(t))
                      /\ WF_vars(Notify(t))
                      /\ WF_vars(Return(t))

SpecLive == InitPublisher /\ [][NextLive]_vars /\ FairLive

\* ------------------------------------------------------------ SpecClone
\* Publisher::new(formatter, client, instruments, retain): the board handed
\* over is wired to the publisher's Handle; clones taken earlier stay with
\* their owner as they are.
PublisherNew ==
    /\ pub.state = "none"
    /\ wired = "no"
    /\ \A i \in Inst : Unborrowed(i)
    /\ LET w == WireFrom(Wiring, 1, PubListener)
       IN /\ name' = w.name
          /\ listener' = w.listener
          /\ queue' = w.queue
          /\ enq' = w.enq
          /\ wired' = "done"
    /\ pub' = [pub EXCEPT !.state = "ready"]
    /\ UNCHANGED <<instVars, hinst, thr, now, rxAlive, setterCalls, countVars,
                   last_messages, published, handled, stops, prevBytes,
                   lastDecision, ctlVars, deriveVars>>

\* A board whose first instrument is cloned before or after the publisher is
\* built, a thread that updates it through any of the handles, and the
\* publisher's loop.
NextClone ==
    \/ \E src \in HandlesOf(1), dst \in Handles : Clone(src, dst)
    \/ PublisherNew
    \/ Run
    \/ PubRecv
    \/ PubSerializeValue
    \/ PubFinish
    \/ \E t \in DOMAIN thr, h \in HandlesOf(1) : UpdateCall(t, h, "inc")
    \/ \E t \in DOMAIN thr : Mutate(t)
    \/ \E t \in DOMAIN thr : Stamp(t)
    \/ \E t \in DOMAIN thr : Notify(t)
    \/ \E t \in DOMAIN thr : Return(t)

\* A board that has just been built, no publisher yet, one thread.
InitClone ==
    /\ InitInstruments
    /\ InitPublisherIdle
    /\ InitUnwired
    /\ thr = [t \in {1} |-> IdleThread]

SpecClone == InitClone /\ [][NextClone]_vars

\* ------------------------------------------------------------ SpecNull
\* One thread updates the first instrument, with a mutator that may panic,
\* another reads it and serializes it, and the publisher runs.
NextNull ==
    \/ Run
    \/ PubRecv
    \/ PubSerializeValue
    \/ PubFinish
    \/ UpdateCall(1, 1, "inc")
    \/ Mutate(1)
    \/ MutatePanic(1)
    \/ Stamp(1)
    \/ Notify(1)
    \/ Return(1)
    \/ Read(2, 1)
    \/ ReadingValue(2, Names[1])
    \/ ReadingTimestamp(2)

SpecNull == InitOrder /\ [][NextNull]_vars

\* ------------------------------------------------------------ SpecProgress
\* One thread updates the first instrument of the publisher's board and
\* another reads it, while the publisher runs its loop and a Shutdown may be
\* sent.
NextProgress ==
    \/ Run
    \/ Shutdown
    \/ PubRecv
    \/ PubSerializeValue
    \/ PubFinish
    \/ UpdateCall(1, 1, "inc")
    \/ Mutate(1)
    \/ Stamp(1)
    \/ Notify(1)
    \/ Return(1)
    \/ Read(2, 1)

\* Every thread is scheduled: the publisher's thread calls run and takes each
\* step of the loop when it can, and a thread inside update goes on (the
\* mutator returns, the guards are dropped on return).
FairProgress ==
    /\ WF_vars(Run)
    /\ WF_vars(PubRecv)
    /\ WF_vars(PubSerializeValue)
    /\ WF_vars(PubFinish)
    /\ WF_vars(Mutate(1))
    /\ WF_vars(Stamp(1))
    /\ WF_vars(Notify(1))
    /\ WF_vars(Return(1))

SpecProgress == InitOrder /\ [][NextProgress]_vars /\ FairProgress

\* ------------------------------------------------------------ SpecFrame
\* Two threads update the first instrument of the publisher's board, one of
\* them with a mutator that may panic, and the publisher runs its loop; the
\* second instrument is wired and left alone.
NextFrame ==
    \/ Run
    \/ PubRecv
    \/ PubSerializeValue
    \/ PubFinish
    \/ UpdateCall(1, 1, "inc")
    \/ UpdateCall(2, 1, "keep")
    \/ \E t \in DOMAIN thr : Mutate(t)
    \/ MutatePanic(1)
    \/ \E t \in DOMAIN thr : Stamp(t)
    \/ \E t \in DOMAIN thr : Notify(t)
    \/ \E t \in DOMAIN thr : Return(t)

SpecFrame == InitOrder /\ [][NextFrame]_vars

\* ------------------------------------------------------------ SpecCounter
\* tests/basic.rs, multithread: the threads increment one instrument (the first)
\* of a board that is not wired, through its clones, and read it.
InitCounter ==
    /\ InitInstruments
    /\ InitPublisherIdle
    /\ InitUnwired
    /\ thr = [t \in Threads |-> IdleThread]

NextCounter ==
    \/ \E src \in HandlesOf(1), dst \in Handles : Clone(src, dst)
    \/ \E t \in DOMAIN thr, h \in HandlesOf(1) : UpdateCall(t, h, "inc")
    \/ \E t \in DOMAIN thr : Mutate(t)
    \/ \E t \in DOMAIN thr : Stamp(t)
    \/ \E t \in DOMAIN thr : Notify(t)
    \/ \E t \in DOMAIN thr : Return(t)
    \/ \E t \in DOMAIN thr, h \in HandlesOf(1) : Read(t, h)

SpecCounter == InitCounter /\ [][NextCounter]_vars

\* ------------------------------------------------------------ SpecPoison
\* A wired board whose first instrument is updated and read by the threads,
\* with mutators that may panic and a receiver that may go away.
InitPoison ==
    /\ InitInstruments
    /\ InitPublisherIdle
    /\ InitWired
    /\ thr = [t \in Writers |-> IdleThread]

NextPoison ==
    \/ \E src \in HandlesOf(1), dst \in Handles : Clone(src, dst)
    \/ DropReceiver(PubListener)
    \/ \E t \in DOMAIN thr, h \in HandlesOf(1), f \in Mutators : UpdateCall(t, h, f)
    \/ \E t \in DOMAIN thr : Mutate(t)
    \/ \E t \in DOMAIN thr : MutatePanic(t)
    \/ \E t \in DOMAIN thr : Stamp(t)
    \/ \E t \in DOMAIN thr : Notify(t)
    \/ \E t \in DOMAIN thr : Return(t)
    \/ \E t \in DOMAIN thr, h \in HandlesOf(1) : Read(t, h)

SpecPoison == InitPoison /\ [][NextPoison]_vars

\* ------------------------------------------------------------ SpecSetters
\* One caller that uses the setters freely on the first instrument and its
\* clones, and wire_listener on the board, next to update and read.
InitSetters ==
    /\ InitInstruments
    /\ InitPublisherIdle
    /\ InitUnwired
    /\ thr = [t \in {1} |-> IdleThread]

NextSetters ==
    \/ \E src \in HandlesOf(1), dst \in Handles : Clone(src, dst)
    \/ \E h \in HandlesOf(1), n \in NameSet : SetName(h, n)
    \/ \E h \in HandlesOf(1), n \in BoardNames :
          SetNameAndListener(h, n, PubListener)
    \/ WireListenerAnyTime(PubListener)
    \/ \E t \in DOMAIN thr, h \in HandlesOf(1) : UpdateCall(t, h, "inc")
    \/ \E t \in DOMAIN thr : Mutate(t)
    \/ \E t \in DOMAIN thr : Stamp(t)
    \/ \E t \in DOMAIN thr : Notify(t)
    \/ \E t \in DOMAIN thr : Return(t)
    \/ \E t \in DOMAIN thr, h \in HandlesOf(1) : Read(t, h)

SpecSetters == InitSetters /\ [][NextSetters]_vars

\* ------------------------------------------------------------ helpers
RECURSIVE SumOver(_, _)
SumOver(f, S) ==
    IF S = {} THEN 0
    ELSE LET x == CHOOSE y \in S : TRUE IN f[x] + SumOver(f, S \ {x})

\* How many Update(n) messages a channel holds.
CountOf(q, n) == Cardinality({k \in 1..Len(q) : q[k].kind = "Update" /\ q[k].name = n})


\* Every thread has made all its update calls and is back.
AllReturned == \A t \in DOMAIN thr : thr[t].pc = "idle" /\ thr[t].calls = MaxUpdates

\* ------------------------------------------------------------ claims

\* C1: T threads each increment one instrument N times through its clones; when
\* all have finished and every call returned Ok, read() returns exactly T*N.
C1_NoLostIncrement ==
    (AllReturned /\ ~bad[1]) =>
        (ReadResult(1) = "Ok" /\ data[1] = NumThreads * MaxUpdates)

C1_Witness ==
    /\ AllReturned
    /\ ~bad[1]
    /\ okInc[1] = NumThreads * MaxUpdates
    /\ \E t \in DOMAIN thr : thr[t].res = Result("read", "Ok")

\* C2: when wire_listener returns, the listener has been handed one
\* notification per instrument, in declaration order and each with the
\* instrument's name; every later notification comes from an update.
C2_WiringNotifiesOnceInOrder ==
    wired = "done" =>
        LET q == queue[PubListener]
        IN /\ Len(q) >= NumInst
           /\ \A k \in Inst : q[k] = UpdateMsg(Names[k], k)
           /\ Len(q) = NumInst + SumOver(okWired, NameSet)
                       + Cardinality({t \in DOMAIN thr : thr[t].notified > 0})

C2_Witness ==
    /\ wired = "done"
    /\ Len(queue[PubListener]) = NumInst
    /\ \E t \in DOMAIN thr : thr[t].pc = "notify"

\* C3: after wiring, the notifications received for a name are the wiring
\* notification plus one for every update through a wired handle of that name
\* that has returned Ok or has handed its notification over and is about to.
C3_OneNotificationPerUpdate ==
    wired = "done" =>
        \A n \in NameSet :
            CountOf(queue[PubListener], n)
                = (IF n \in BoardNames THEN 1 ELSE 0) + okWired[n]
                  + Cardinality({t \in DOMAIN thr :
                        thr[t].pc = "unlock" /\ Wired(thr[t].h)
                        /\ name[thr[t].h] = n})

C3_Witness ==
    /\ wired = "done"
    /\ \E n \in BoardNames :
          /\ okWired[n] >= 2
          /\ CountOf(queue[PubListener], n) = 1 + okWired[n]

NoPublishAfterShutdown ==
    \A p \in 1..Len(published), s \in stops :
        published[p].run = s.run => published[p].id < s.id

\* Every message older than a dequeued Shutdown was processed by the call of
\* run that dequeued the Shutdown, or by an earlier one.
EarlierProcessedFirst ==
    \A s \in stops, k \in 1..enq :
        k < s.id =>
            \/ \E h \in handled : h.id = k /\ h.run <= s.run
            \/ \E s2 \in stops : s2.id = k /\ s2.run < s.run

\* C5 (as stated): once run dequeues Shutdown it returns without a further
\* publish call; every Update enqueued before the Shutdown is processed before
\* run returns; no Update enqueued after it is ever acted upon.
C5_NothingAfterShutdownIsEverProcessed ==
    /\ NoPublishAfterShutdown
    /\ EarlierProcessedFirst
    /\ \A h \in handled, s \in stops : h.id < s.id

\* C5 amended: once run dequeues Shutdown it returns without a further publish
\* call; every Update enqueued before the Shutdown is processed before run
\* returns; an Update enqueued after it is not acted upon by that call of run:
\* it stays in the channel, and a later call of run processes it.
C5_NothingAfterShutdownInThatRun ==
    /\ NoPublishAfterShutdown
    /\ EarlierProcessedFirst
    /\ \A h \in handled, s \in stops : h.id > s.id => h.run > s.run

\* A call of run processed an Update and returned on Shutdown, and the next
\* call processed an Update enqueued after that Shutdown.
C5_Witness ==
    \E s \in stops, h1, h2 \in handled :
        /\ h1.id < s.id
        /\ h1.run = s.run
        /\ h2.id > s.id
        /\ h2.run > s.run

\* ------------------------------------------------------------ C6
\* The notification came from update, not from the wiring of the board.
FromUpdate(h) == h.id > NumInst
\* No update changed the instrument while the notification was processed.
Steady(h) == h.atVer = h.tsVer

\* A publish call made for a notification processed with no update under way
\* carries the instrument's value at that time: every update of this
\* specification adds one to a value that starts at 0, so after the k-th update
\* the value is k.
CarriesLatestValue ==
    \A h \in handled : (h.pub /\ Steady(h)) => h.val = h.atVer

ShutdownCalled == shutdownCalls' = shutdownCalls + 1
\* The call queued its Shutdown message and returned.
ShutdownDelivered ==
    /\ enq' = enq + 1
    /\ queue' = [queue EXCEPT ![PubListener] = Append(@, ShutdownMsg(enq + 1))]

\* C11 (as stated): shutdown can be called any number of times through any
\* clone of the handle without failing, and only the first Shutdown delivered
\* has an effect: the loop returns once.
C11_ShutdownNeverFails ==
    [][/\ ShutdownCalled => ShutdownDelivered
       /\ Cardinality(stops') <= 1]_vars

\* C11 amended: shutdown can be called any number of times through any clone of
\* the handle; it queues a Shutdown and returns as long as the publisher's
\* receiver exists, and panics, queueing nothing, once the publisher is gone.
\* Each call of run returns at the first Shutdown it dequeues; a later Shutdown
\* changes nothing while run is not in progress: it waits in the channel and
\* ends the next call of run.
C11_ShutdownWhilePublisherExists ==
    [][/\ (ShutdownCalled /\ rxAlive[PubListener]) => ShutdownDelivered
       /\ (ShutdownCalled /\ ~rxAlive[PubListener]) => UNCHANGED <<queue, enq>>
       /\ \A s1, s2 \in stops' : s1.run = s2.run => s1 = s2
       /\ (pub.state # "running" /\ pub'.state # "running") =>
              (stops' = stops /\ Len(queue'[PubListener]) >= Len(queue[PubListener]))
      ]_vars

\* Two calls of shutdown were made and each ended a call of run.
C11_Witness ==
    /\ shutdownCalls = 2
    /\ Cardinality(stops) = 2
    /\ pub.state = "terminated"

\* ------------------------------------------------------------ C12
\* Every sender outside the publisher is gone, no Shutdown was sent, and the
\* loop waits in recv with nothing left to take.
ProducersGone ==
    /\ pub.state = "running"
    /\ pub.ppc = "recv"
    /\ queue[PubListener] = <<>>
    /\ OutsideSenders = 0

\* C12: when the producer side of the channel is destroyed without a Shutdown
\* while the loop is running, the loop does not stay running: recv returns and
\* the loop signals an unrecoverable error.
C12_ClosedQueueIsFatal == ProducersGone => ENABLED PubRecv

\* ------------------------------------------------------------ C13
\* The publisher is about to fail on the Update it has taken: the name is not
\* on the board (NotFound), or the timestamp lock is poisoned
\* (SerializationError).
SerializationFails ==
    /\ pub.state = "running"
    /\ \/ pub.ppc = "value" /\ pub.inst = 0
       \/ pub.ppc = "ts" /\ tsLock[pub.inst] = 0 /\ tsPoisoned[pub.inst]

\* C13: a failure to serialize one instrument while the publisher processes
\* its Update does not stop the loop: the loop stays running for the later
\* messages.
C13_SerializationFailureIsNotFatal ==
    [][(SerializationFails /\ pub' # pub) => pub'.state = "running"]_vars

\* ------------------------------------------------------------ C14
\* C14: a failed sink publish call is fatal for the run: the loop ends with
\* it, the publish is not made again, and no later message is taken or
\* processed.
C14_SinkFailureIsFatal ==
    [][/\ (lastDecision'.made /\ lastDecision'.failed) => pub'.state = "panicked"
       /\ pub.state = "panicked" =>
             /\ pub' = pub
             /\ published' = published
             /\ handled' = handled
             /\ Len(queue'[PubListener]) >= Len(queue[PubListener])]_vars

\* The sink failed on a publish call and the loop is gone, with a message left
\* in the channel that will not be taken.
C14_Witness ==
    /\ lastDecision.made
    /\ lastDecision.failed
    /\ pub.state = "panicked"
    /\ Len(published) >= 1
    /\ published[Len(published)].name = lastDecision.name
    /\ queue[PubListener] # <<>>

\* ------------------------------------------------------------ C15
\* The names that have an entry in last_messages.
Keys(m) == {n \in NameSet : m[n] # NoHash}

C16_PublishArguments ==
    [][/\ (pub.state = "running" /\ pub.ppc = "value" /\ pub'.ppc = "ts") =>
              pub'.val = (IF dataPoisoned[pub.inst] THEN Null ELSE data[pub.inst])
       /\ Len(published') > Len(published) =>
              LET call == published'[Len(published')]
              IN /\ Len(published') = Len(published) + 1
                 /\ call.name = pub.cur
                 /\ call.topic = pub.cur
                 /\ call.payload = <<pub.val, timestamp[pub.inst]>>
                 /\ call.opt = (IF pub.retain THEN "retain"
                                ELSE "at_least_once")]_vars

\* Publish calls for both instruments, one of them with a value that an update
\* produced, by a publisher built with retain and by one built without.
C16_Published(r) ==
    /\ pub.retain = r
    /\ \E p, q \in 1..Len(published) :
          /\ published[p].topic # published[q].topic
          /\ published[p].payload[1] > 0
          /\ published[p].opt = published[q].opt

C16_Witness == C16_Published(TRUE)

\* ------------------------------------------------------------ C17
\* C17: a thread whose update has reached the listener call of a wired
\* instrument can always hand the notification over and go on to return,
\* however many notifications are pending and although nothing is dequeued.
C17_UpdateNeverWaitsForConsumer ==
    \A t \in DOMAIN thr :
        /\ (thr[t].pc = "notify" /\ Wired(thr[t].h) /\ SendOk(listener[thr[t].h]))
              => ENABLED (Notify(t) /\ thr'[t].pc = "unlock")
        /\ thr[t].pc = "unlock" => ENABLED Return(t)

\* An update has returned Ok while the notifications of the wiring and of
\* several updates are all still in the channel: no publisher has ever run.
C17_Witness ==
    /\ pub.state = "none"
    /\ Len(queue[PubListener]) = enq
    /\ enq >= NumInst + 3
    /\ \E t \in DOMAIN thr :
          /\ thr[t].pc = "idle"
          /\ thr[t].res = Result("update", "Ok")
          /\ thr[t].calls >= 2

\* ------------------------------------------------------------ C18
\* C18: a serialized reading is a snapshot: the timestamp in it is the one the
\* instrument had when its value was read (no update is in progress at that
\* moment, so that pair is the work of one update or the initial one).
C18_ReadingIsSnapshot ==
    lastDecision.made => lastDecision.bytes[2] = lastDecision.seen

\* ------------------------------------------------------------ C19
\* The completed calls of serialize_reading.
Readings == {thr[t].res : t \in {u \in DOMAIN thr :
                 thr[u].res.op = "serialize" /\ thr[u].res.r # "pending"}}

\* A key that is no instrument name is NotFound and nothing is written.
UnknownKeyWritesNothing ==
    \A rd \in Readings :
        rd.key \notin BoardNames => rd.r = "NotFound" /\ rd.out = <<>>

ReadingStep ==
    \E t \in DOMAIN thr :
        /\ thr'[t] # thr[t]
        /\ thr[t].pc = "reading" \/ thr'[t].pc = "reading"
             \/ (thr[t].pc = "idle" /\ thr'[t].pc = "idle"
                   /\ thr'[t].res.op = "serialize")

\* Two readings of one instrument, each Ok, with the same version throughout:
\* no update came between them.
SameInstrumentUnchanged(t, u) ==
    /\ thr[t].res.op = "serialize" /\ thr[t].res.r = "Ok"
    /\ thr[u].res.op = "serialize" /\ thr[u].res.r = "Ok"
    /\ thr[t].res.key = thr[u].res.key
    /\ thr[t].res.ver = thr[t].res.end
    /\ thr[u].res.ver = thr[u].res.end
    /\ thr[t].res.ver = thr[u].res.ver

\* C20: two serializations of the same instrument with no update in between
\* give the same bytes, whatever the time of each, and no step of a
\* serialization changes an instrument, a handle or a channel.
C20_SerializationRepeatable ==
    [][/\ ReadingStep => UNCHANGED <<instVars, handleVars, chanVars, now>>
       /\ \A t, u \in DOMAIN thr :
             SameInstrumentUnchanged(t, u)' => thr'[t].res.out = thr'[u].res.out]_vars

\* The same updated instrument serialized at two different times.
C20_Witness ==
    \E t, u \in DOMAIN thr :
        /\ SameInstrumentUnchanged(t, u)
        /\ thr[t].res.at # thr[u].res.at
        /\ thr[t].res.ver > 0
        /\ thr[t].res.out = thr[u].res.out

\* ------------------------------------------------------------ C21
\* The step in which the update of thread t writes the timestamp.
Stamped(t) == thr[t].pc = "stamp" /\ thr'[t].pc = "notify"

\* What serialization writes for instrument i before and after the step: the
\* value the update of t started from with the timestamp it found, and the
\* value and the timestamp the update leaves.
ReadingBefore(t, i) == Bytes(thr[t].tmp, timestamp[i])
ReadingAfter(i) == Bytes(data'[i], timestamp'[i])

\* The timestamp changes in no step but the timestamp write of an update.
StampedOnlyByUpdate ==
    \A i \in Inst :
        timestamp'[i] # timestamp[i] => \E t \in DOMAIN thr : Stamped(t) /\ InstOf(t) = i

C22_NamesOnceAndUnderOverride ==
    /\ \A c \in 1..Len(nameCalls) :
          LET r == nameCalls[c]
          IN /\ DOMAIN r = DOMAIN fields
             /\ \A k \in DOMAIN r : r[k] = RegisteredName(fields[k])
             /\ \A j, k \in DOMAIN r : j # k => r[j] # r[k]
             /\ r = nameCalls[1]
    /\ \A k \in DOMAIN fields :
          fields[k].name # None =>
              /\ found.key = fields[k].name => found.arm = k
              /\ (found.key = fields[k].ident /\ fields[k].ident # fields[k].name)
                    => found.arm # k

\* ------------------------------------------------------------ C23
\* The step that ends the processing of an Update: the bytes are complete and
\* the entry of last_messages has been looked at.
Processed ==
    /\ pub.state = "running"
    /\ pub.ppc = "ts"
    /\ ~tsPoisoned[pub.inst]
    /\ pub' # pub

\* A hash stored for a name is the hash of the last payload this call of run
\* published for it.
StoredIsLastPublished ==
    \A n \in NameSet :
        last_messages[n] # NoHash =>
            \E p \in 1..Len(published) :
                /\ published[p].name = n
                /\ published[p].run = pub.run
                /\ Hash(published[p].payload) = last_messages[n]
                /\ \A q \in (p + 1)..Len(published) : published[q].name # n

UpdateOf(id) == id - NumInst

\* C24: a notification is in the channel only once its mutation is applied, and
\* the value the publisher reads for the message of the k-th update includes
\* that update: it is k or the value of a later update.
C24_ReadsNoOlderThanItsUpdate ==
    /\ \A p \in 1..Len(queue[PubListener]) :
          LET m == queue[PubListener][p]
          IN (m.kind = "Update" /\ m.id > NumInst) => data[1] >= UpdateOf(m.id)
    /\ (pub.state = "running" /\ pub.ppc = "ts" /\ pub.msg > NumInst)
          => pub.val >= UpdateOf(pub.msg)
    /\ \A h \in handled : FromUpdate(h) => h.val >= UpdateOf(h.id)
    /\ \A p \in 1..Len(published) :
          published[p].id > NumInst => published[p].payload[1] >= UpdateOf(published[p].id)

\* The message of one update was published with the value that update left,
\* and the message of another with the value of a later update.
C24_Witness ==
    \E p, q \in 1..Len(published) :
        /\ published[p].id > NumInst
        /\ published[p].payload[1] = UpdateOf(published[p].id)
        /\ published[q].id > NumInst
        /\ published[q].payload[1] > UpdateOf(published[q].id)

\* ------------------------------------------------------------ C25
\* The first publish calls are for the instruments in declaration order.
FirstPublishesInOrder ==
    \A k \in Inst :
        k <= Len(published) =>
            /\ published[k].name = Names[k]
            /\ published[k].id = k
            /\ published[k].run = 1

\* C25: the first publish calls are for the board's instruments in declaration
\* order, and once a Shutdown has been processed there has been a publish call
\* for every instrument: every Shutdown is behind the wiring notifications.
C25_AllPublishedBeforeShutdown ==
    /\ FirstPublishesInOrder
    /\ stops # {} =>
          /\ Len(published) >= NumInst
          /\ \A s \in stops : s.id > NumInst
          /\ \A s \in stops, k \in Inst : published[k].run <= s.run

\* No update has ever been made, run has returned on Shutdown, and there has
\* been one publish call per instrument.
C25_Witness ==
    /\ stops # {}
    /\ pub.state = "terminated"
    /\ \A i \in Inst : version[i] = 0
    /\ \A t \in DOMAIN thr : thr[t].calls = 0
    /\ Len(published) = NumInst

\* ------------------------------------------------------------ C26
\* The most recent publish call for name n: its place in published, 0 when
\* there is none.
LastPublished(n) ==
    LET ps == {p \in 1..Len(published) : published[p].name = n}
    IN IF ps = {} THEN 0 ELSE CHOOSE p \in ps : \A q \in ps : q <= p

\* The channel is empty and the loop waits in recv.
Drained ==
    /\ pub.state = "running"
    /\ pub.ppc = "recv"
    /\ queue[PubListener] = <<>>

\* Nothing is left to do: the channel is drained and no update is under way.
Quiescent == Drained /\ \A t \in DOMAIN thr : thr[t].pc = "idle"

\* What serialization writes for instrument i now.
Encoding(i) == Bytes(IF dataPoisoned[i] THEN Null ELSE data[i], timestamp[i])

\* The payload last published for every instrument is its encoding.
LastPayloadIsCurrent ==
    \A i \in Inst :
        /\ LastPublished(Names[i]) # 0
        /\ published[LastPublished(Names[i])].payload = Encoding(i)

\* The payload last published for every instrument has the hash of its
\* encoding.
LastPayloadHashIsCurrent ==
    \A i \in Inst :
        /\ LastPublished(Names[i]) # 0
        /\ Hash(published[LastPublished(Names[i])].payload) = Hash(Encoding(i))

\* C26 as stated, at the moment the updates have stopped and the channel is
\* drained: the payload last published for every instrument is the encoding of
\* its current value.
C26_DrainedMeansCurrent == Quiescent => LastPayloadIsCurrent

\* C26: unless a publish call fails, the channel is eventually drained for
\* good, and whenever it is drained with no update under way the payload last
\* published for every instrument has the same hash as the encoding of its
\* current value (the same bytes, unless two encodings share a hash).
C26_DrainedMeansSameHash ==
    /\ [](Quiescent => LastPayloadHashIsCurrent)
    /\ <>[](pub.state = "panicked" \/ (Quiescent /\ LastPayloadHashIsCurrent))

\* The updates are over, the channel is drained and the payload last published
\* for the updated instrument is the encoding of the value the updates left.
C26_Witness ==
    /\ Quiescent
    /\ LastPayloadIsCurrent
    /\ data[1] = MaxUpdates
    /\ thr[1].calls = MaxUpdates

\* ------------------------------------------------------------ C27
\* The step in which the listener call of thread t is made, and the step in
\* which it panics.
ListenerCalled(t) == thr[t].pc = "notify" /\ thr'[t] # thr[t]
ListenerPanics(t) == ListenerCalled(t) /\ thr'[t].pc = "panicked"

\* C27: the listener call of an update panics exactly when the instrument is
\* wired to a channel whose receiver is gone; the mutator has then been
\* applied and the thread holds both locks, which the panic poisons; the
\* poison stays, and every read and update that starts on that instrument
\* afterwards returns an error.
C27_LostReceiverIsFatal ==
    [][/\ \A t \in DOMAIN thr :
             ListenerCalled(t) =>
                 LET h == thr[t].h
                     i == InstOf(t)
                 IN /\ ListenerPanics(t) <=> (Wired(h) /\ ~rxAlive[listener[h]])
                    /\ ListenerPanics(t) =>
                          /\ thr[t].applied = 1
                          /\ data'[i] = data[i]
                          /\ dataLock[i] = t /\ tsLock[i] = t
                          /\ dataPoisoned'[i] /\ tsPoisoned'[i]
                          /\ queue' = queue
       /\ \A i \in Inst : tsPoisoned[i] => (tsPoisoned'[i] /\ dataPoisoned[i])
       /\ \A t \in DOMAIN thr, h \in Handles :
             (/\ hinst[h] # 0
              /\ tsPoisoned[hinst[h]]
              /\ Read(t, h) \/ \E f \in Mutators : UpdateCall(t, h, f))
             => (thr'[t].pc = "idle" /\ thr'[t].res.r = "Err")]_vars

\* The receiver went, an update applied its mutator and panicked in the
\* listener call, and a read of the instrument has returned an error since.
C27_Witness ==
    /\ ~rxAlive[PubListener]
    /\ tsPoisoned[1]
    /\ data[1] > 0
    /\ \E t \in DOMAIN thr : thr[t].pc = "panicked"
    /\ \E t \in DOMAIN thr : thr[t].res = Result("read", "Err")

\* ------------------------------------------------------------ C28
\* The publisher has been built and neither dropped nor lost to a panic.
PublisherExists == pub.state \in {"ready", "running", "terminated"}

\* The Shutdown messages still in the channel.
ShutdownsQueued ==
    Cardinality({p \in 1..Len(queue[PubListener]) :
                    queue[PubListener][p].kind = "Shutdown"})

\* C28: while the publisher exists its channel has a receiver and a sender, so
\* a send through a Handle succeeds (every call of shutdown made so far has
\* queued its message); run never ends because recv found the channel closed
\* (it panics only on a failed publish call); and when every Handle is dropped
\* with the channel empty and no Shutdown sent, recv has nothing to return: the
\* loop stays where it is.
C28_QueueNeverClosed ==
    /\ PublisherExists =>
          /\ rxAlive[PubListener]
          /\ SendOk(PubListener)
          /\ ~Disconnected
          /\ shutdownCalls = ShutdownsQueued + Cardinality(stops)
    /\ pub.state = "panicked" => (lastDecision.made /\ lastDecision.failed)
    /\ ProducersGone => (PublisherExists /\ ~ENABLED PubRecv)

\* Every Handle has been dropped without a Shutdown after the loop published
\* the wiring notifications: the loop waits in recv.
C28_Witness ==
    /\ ProducersGone
    /\ pubHandles = 0
    /\ shutdownCalls = 0
    /\ Len(published) = NumInst

\* ------------------------------------------------------------ C29
\* Handle h is a clone that has neither name nor listener.
BareClone(h) ==
    /\ h \in Handles \ Inst
    /\ hinst[h] # 0
    /\ name[h] = None
    /\ listener[h] = None

\* C29: building the publisher leaves the clones taken before as they are,
\* without name and listener; an update through such a clone changes the value
\* its instrument's other handles read, sends nothing and returns Ok; and a
\* publish call is only made for a message taken from the channel, one call at
\* most for each, so that update is published by no call until a later
\* notification of the instrument is processed.
C29_EarlyCloneIsSilent ==
    [][/\ \A h \in Handles :
             (BareClone(h) /\ pub.state = "none" /\ pub'.state = "ready")
                 => BareClone(h)'
       /\ \A t \in DOMAIN thr :
             BareClone(thr[t].h) =>
                 /\ (thr[t].pc = "mutate" /\ thr'[t].pc = "stamp") =>
                        /\ data'[InstOf(t)] = data[InstOf(t)] + 1
                        /\ \A k \in HandlesOf(InstOf(t)) : data'[hinst[k]] # data[hinst[k]]
                 /\ (thr[t].pc # "idle" /\ thr'[t] # thr[t]) =>
                        /\ queue' = queue
                        /\ enq' = enq
                        /\ published' = published
                 /\ (thr[t].pc = "unlock" /\ thr'[t].pc = "idle") =>
                        /\ thr'[t].res = Result("update", "Ok")
                        /\ thr[t].applied = 1
                        /\ thr[t].notified = 0
       /\ Len(published') > Len(published) =>
             /\ pub.ppc = "ts"
             /\ published'[Len(published')].id = pub.msg
             /\ \A p \in 1..Len(published) : published[p].id # pub.msg]_vars

\* A clone taken before the publisher was built has been updated and the
\* update has returned Ok; the loop has taken every message and waits in recv,
\* and the payload last published for the instrument is still the old one.
C29_Witness ==
    /\ \E h \in Handles : BareClone(h) /\ hinst[h] = 1
    /\ \A h \in Handles : hinst[h] # 0 => (h \in Inst \/ BareClone(h))
    /\ Quiescent
    /\ thr[1].res = Result("update", "Ok")
    /\ data[1] > 0
    /\ LastPublished(Names[1]) # 0
    /\ published[LastPublished(Names[1])].payload[1] = 0
    /\ last_messages[Names[1]] # Hash(Encoding(1))

\* ------------------------------------------------------------ C30
\* serialize_reading writes null for the value exactly when the data lock is
\* poisoned, where read() returns an error; the publisher that takes a
\* notification of such an instrument encodes null too, and decides on the
\* publish call from the hash of those bytes as for any payload.
PoisonedDataIsNull ==
    /\ \A t \in DOMAIN thr :
          (thr[t].pc = "idle" /\ thr'[t].pc = "reading") =>
              (dataPoisoned[thr'[t].h] <=> thr'[t].res.out = <<Null>>)
    /\ \A t \in DOMAIN thr, h \in Handles :
          (hinst[h] # 0 /\ dataPoisoned[hinst[h]] /\ Read(t, h))
              => thr'[t].res = Result("read", "Err")
    /\ (pub.state = "running" /\ pub.ppc = "value" /\ pub'.ppc = "ts") =>
          (dataPoisoned[pub.inst] <=> pub'.val = Null)
    /\ (Processed /\ pub.val = Null) =>
          LET b == <<Null, timestamp[pub.inst]>>
              sent == last_messages[pub.cur] = NoHash
                         \/ last_messages[pub.cur] # Hash(b)
          IN /\ lastDecision'.bytes = b
             /\ lastDecision'.pub = sent
             /\ sent => /\ Len(published') = Len(published) + 1
                         /\ published'[Len(published')].payload = b

\* The step that ends a serialize_reading of thread t which wrote null for
\* the value.
NullReadingEnds(t) ==
    /\ thr[t].pc = "reading"
    /\ thr'[t].pc = "idle"
    /\ thr[t].res.out = <<Null>>

\* The publisher leaves the step in which it had null for the value.
NullProcessingEnds ==
    /\ pub.state = "running"
    /\ pub.ppc = "ts"
    /\ pub.val = Null
    /\ pub' # pub

\* C30 as stated: serialize_reading of an instrument whose data lock is
\* poisoned returns Ok with null for the value, and the publisher that
\* processes its notification does not fail to serialize it.
C30_PoisonedDataNeverFails ==
    [][/\ PoisonedDataIsNull
       /\ \A t \in DOMAIN thr :
             NullReadingEnds(t) =>
                 /\ thr'[t].res.r = "Ok"
                 /\ thr'[t].res.out = <<Null, timestamp[thr[t].h]>>
       /\ NullProcessingEnds => lastDecision'.made /\ lastDecision' # lastDecision]_vars

\* C30: serialize_reading of an instrument whose data lock is poisoned and
\* whose timestamp lock is not returns Ok with null for the value, and the
\* publisher that processes its notification encodes null and goes on; when
\* the timestamp lock is poisoned too, both fail.
C30_PoisonedDataAloneIsNull ==
    [][/\ PoisonedDataIsNull
       /\ \A t \in DOMAIN thr :
             NullReadingEnds(t) =>
                 IF tsPoisoned[thr[t].h]
                 THEN thr'[t].res.r = "SerializationError"
                 ELSE /\ thr'[t].res.r = "Ok"
                      /\ thr'[t].res.out = <<Null, timestamp[thr[t].h]>>
       /\ NullProcessingEnds =>
             IF tsPoisoned[pub.inst]
             THEN pub'.state = "panicked" /\ lastDecision' = lastDecision
             ELSE lastDecision'.made /\ lastDecision'.bytes[1] = Null]_vars

\* A mutator panicked and poisoned the data lock alone; a read has returned
\* an error and the publisher has published null for the instrument.
C30_Witness ==
    /\ dataPoisoned[1]
    /\ ~tsPoisoned[1]
    /\ \E t \in DOMAIN thr : thr[t].res = Result("read", "Err")
    /\ \E p \in 1..Len(published) :
          published[p].name = Names[1] /\ published[p].payload[1] = Null

\* ------------------------------------------------------------ C31
\* Somebody has work to do: a thread is inside update, or the running
\* publisher is inside a cycle of its loop or has a message to take.
PublisherBusy ==
    /\ pub.state = "running"
    /\ pub.ppc # "recv" \/ queue[PubListener] # <<>>

SomeoneBusy == PublisherBusy \/ \E t \in DOMAIN thr : InFlight(t)

\* A step of a thread inside update or of the publisher's loop.
StepOfSomeone ==
    \/ PubRecv
    \/ PubSerializeValue
    \/ PubFinish
    \/ \E t \in DOMAIN thr : Mutate(t) \/ Stamp(t) \/ Notify(t) \/ Return(t)

\* No state is stuck: whenever somebody has work to do, one of them can step.
NoDeadlock == SomeoneBusy => ENABLED StepOfSomeone

\* An Update message waits in the channel of a publisher that has not been
\* shut down, with no Shutdown ahead of it.
QueuedBeforeShutdown ==
    /\ pub.state \in {"ready", "running"}
    /\ \E k \in 1..Len(queue[PubListener]) :
          /\ queue[PubListener][k].kind = "Update"
          /\ \A j \in 1..(k - 1) : queue[PubListener][j].kind # "Shutdown"

\* The publisher's run ended in a panic (a failed publish call), after which
\* nothing is processed and a listener may find the receiver gone.
RunFailed == pub.state = "panicked"

\* Every message that was taken from the channel has gone through its cycle
\* of the loop, and none that is queued ahead of a Shutdown is left.
AllProcessed ==
    /\ ~QueuedBeforeShutdown
    /\ pub.state = "running" => pub.ppc = "recv"
    /\ \A id \in 1..enq :
          \/ \E r \in handled \cup stops : r.id = id
          \/ \E k \in 1..Len(queue[PubListener]) : queue[PubListener][k].id = id

UpdateStep(t) ==
    /\ thr'[t] # thr[t]
    /\ InFlight(t) \/ thr'[t].calls = thr[t].calls + 1

\* The instrument that step works on; 0 when write() failed at once and the
\* call holds nothing.
Target(t) ==
    IF InFlight(t) THEN InstOf(t)
    ELSE IF thr'[t].pc = "mutate" THEN hinst[thr'[t].h] ELSE 0

\* What a step of update by t leaves alone: the other instruments, every name
\* and listener, the publisher's hashes, and the channels but for one Update
\* under the name of the handle the update was called on.
OthersUntouched(t) ==
    /\ \A j \in Inst \ {Target(t)} :
          /\ data'[j] = data[j]
          /\ timestamp'[j] = timestamp[j]
          /\ dataPoisoned'[j] = dataPoisoned[j]
          /\ tsPoisoned'[j] = tsPoisoned[j]
          /\ dataLock'[j] = dataLock[j]
          /\ tsLock'[j] = tsLock[j]
    /\ name' = name
    /\ listener' = listener
    /\ last_messages' = last_messages
    /\ queue' # queue =>
          /\ thr[t].pc = "notify"
          /\ queue' = [queue EXCEPT ![listener[thr[t].h]] =
                          Append(@, UpdateMsg(name[thr[t].h], enq + 1))]

\* The publisher changes a stored hash only while it processes a notification
\* of that name, or when run starts with a new map.
HashOnlyForNotifiedName ==
    \A n \in NameSet :
        last_messages'[n] # last_messages[n] =>
            \/ pub'.run # pub.run
            \/ pub.state = "running" /\ pub.ppc = "ts" /\ n = pub.cur

\* C32: a step of update changes the value, the timestamp and the locks of its
\* own instrument only and queues a notification under its own name only; the
\* other instruments, all names and listeners and the publisher's stored
\* hashes stay as they are, also when the update fails or poisons its
\* instrument, and the publisher changes the hash of the notified name only.
C32_UpdateTouchesOnlyItsInstrument ==
    [][/\ \A t \in DOMAIN thr : UpdateStep(t) => OthersUntouched(t)
       /\ HashOnlyForNotifiedName]_vars

\* The first instrument was updated and published, then poisoned by an update,
\* and a later update of it failed, while the second instrument is intact and
\* its stored hash is that of its first reading.
C32_Witness ==
    /\ dataPoisoned[1]
    /\ \E t \in DOMAIN thr : thr[t].res = Result("update", "Err")
    /\ \E p \in 1..Len(published) :
          published[p].name = Names[1] /\ published[p].payload[1] = 1
    /\ ~dataPoisoned[2] /\ ~tsPoisoned[2] /\ data[2] = 0
    /\ last_messages[Names[2]] = Hash(Bytes(0, 0))
    /\ pub.state = "running"

\* C7 as stated: when update is about to call the listener it holds no lock of
\* the instrument.
C7_ReleasedBeforeNotify ==
    \A t \in DOMAIN thr :
        (thr[t].pc = "notify" /\ Wired(thr[t].h)) =>
            (dataLock[InstOf(t)] # t /\ tsLock[InstOf(t)] # t)

\* C7 amended: update calls the listener while it holds both the data lock and
\* the timestamp lock, and keeps them until it returns.
C7_NotifiesUnderLock ==
    \A t \in DOMAIN thr :
        thr[t].pc \in {"notify", "unlock"} =>
            (dataLock[InstOf(t)] = t /\ tsLock[InstOf(t)] = t)

C7_Witness ==
    \E t \in DOMAIN thr :
        /\ thr[t].pc = "unlock"
        /\ thr[t].notified = 1
        /\ dataLock[InstOf(t)] = t

\* A step in which an update call of thread t returns.
UpdateReturns(t) ==
    /\ thr'[t].pc = "idle"
    /\ thr'[t].calls = (IF thr[t].pc = "idle" THEN thr[t].calls + 1 ELSE thr[t].calls)
    /\ thr'[t].res.op = "update"
    /\ (thr[t].pc = "idle" => thr'[t] # thr[t])

\* C8: update returns Ok only when the mutator has been applied exactly once;
\* when it returns an error the mutator has not been applied, the value is as
\* it was and no notification has been sent.
C8_UpdateAllOrNothing ==
    [][\A t \in DOMAIN thr :
          UpdateReturns(t) =>
              /\ thr'[t].res.r = "Ok" => thr[t].applied = 1
              /\ thr'[t].res.r = "Err" =>
                    /\ thr[t].applied = 0
                    /\ thr[t].notified = 0
                    /\ data' = data
                    /\ queue' = queue]_vars

C8_Witness ==
    \E t \in DOMAIN thr :
        /\ thr[t].res = Result("update", "Err")
        /\ tsPoisoned[1]

\* C9: a mutator's panic poisons the data lock, the lock stays poisoned, and
\* every read and update that starts on a poisoned instrument, through any
\* handle, returns an error.
C9_PoisonIsPermanent ==
    [][/\ \A t \in DOMAIN thr :
             (thr[t].pc = "mutate" /\ thr'[t].pc = "panicked") =>
                 dataPoisoned'[InstOf(t)]
       /\ \A i \in Inst : dataPoisoned[i] => dataPoisoned'[i]
       /\ \A t \in DOMAIN thr, h \in Handles :
             (/\ hinst[h] # 0
              /\ dataPoisoned[hinst[h]]
              /\ Read(t, h) \/ \E f \in Mutators : UpdateCall(t, h, f))
             => (thr'[t].pc = "idle" /\ thr'[t].res.r = "Err")]_vars

C9_Witness ==
    /\ rxAlive[PubListener]
    /\ \E t \in DOMAIN thr : thr[t].pc = "panicked"
    /\ \E t \in DOMAIN thr : thr[t].res = Result("update", "Err")
    /\ \E h \in Handles : h \notin Inst /\ hinst[h] = 1

\* C10 as stated: once a handle has a name and a listener, no operation
\* changes either.
C10_NameAndListenerNeverChange ==
    [][\A h \in Handles :
          Wired(h) => (name'[h] = name[h] /\ listener'[h] = listener[h])]_vars

\* C10 amended: update, read and clone leave the name and the listener of every
\* existing handle as they are; only the setters (set_name,
\* set_name_and_listener, wire_listener) change them.
C10_OnlySettersChangeNameAndListener ==
    [][\A h \in Handles :
          (hinst[h] # 0 /\ setterCalls' = setterCalls) =>
              (name'[h] = name[h] /\ listener'[h] = listener[h])]_vars

C10_Witness ==
    \E h \in Handles :
        /\ Wired(h)
        /\ name[h] = "x"
        /\ okWired["x"] >= 1
        /\ \E t \in DOMAIN thr : thr[t].res = Result("read", "Ok")

====
